---- MODULE Spec2Model ----
(***************************************************************************)
(* Model of test/testGRPC4C4RPipelineCrossStream.cpp: the orchestrator     *)
(* (main), the workload drivers it spawns, the read-loop thread every      *)
(* driver starts once per repeat, and the global aggregate state they      *)
(* share (g_total, g_frameCnt, g_latency_sum, g_latency_count, g_mutex).   *)
(*                                                                         *)
(* The remote service is the environment: every Response a stream yields   *)
(* is drawn from a finite set of Responses, and a stream may close after   *)
(* any number of them.  Values that only reach the log (request_sent,      *)
(* duration, curFPS, firstResponseIndex, the cpu/gpu samples) are left     *)
(* out; everything that reaches a Request, the shared state or the final   *)
(* report is kept.                                                         *)
(***************************************************************************)
EXTENDS Integers, Sequences, FiniteSets, TLC

(* ------------------------------ bounds -------------------------------- *)
\* sessions a full run may open: driver threads times pipeline_repeats
MaxSessions == 2
\* Responses the service sends on all streams of one run, handshakes excluded
MaxResponses == 2
\* the clock stops advancing here
MaxTime == 3
\* largest totalStreamNum of a run of the orchestrator alone
MaxPartStreams == 10
\* most driver threads the orchestrator alone may spawn
MaxDrivers == 4
\* driver threads of a run in which the service stalls one stream
MaxStallDrivers == 3
\* totalStreamNum of the runs whose final report is computed from given totals
MaxFinalizeStreams == 4

(* ----------------------------- vocabulary ----------------------------- *)
Drivers == 1..MaxDrivers

NoThread == <<"none", 0>>
MainThread == <<"main", 0>>
DriverThread(d) == <<"workload", d>>
ReaderThread(d) == <<"reader", d>>

\* contents / additionalContents: the two pipeline configuration texts
PrimaryJson == "contents"
AdditionalJson == "additionalContents"
NoConfig == "unset"

\* a field a decoded message does not carry
Absent == 0 - 1
\* a message boost::property_tree::read_json cannot parse
Garbage == [Type |-> "garbage", latency |-> Absent, handle |-> Absent]
NoReply == [status |-> 0, message |-> Garbage]

Latencies == {1, 2}
Handles == {0, 1}

\* what the service may answer to load_pipeline
HandshakeReplies ==
    {[status |-> 0, message |-> [Type |-> "", latency |-> Absent, handle |-> h]] : h \in Handles}
    \cup {[status |-> 1, message |-> [Type |-> "", latency |-> Absent, handle |-> 1]],
          [status |-> 0, message |-> Garbage],
          [status |-> 0, message |-> [Type |-> "", latency |-> Absent, handle |-> Absent]]}

\* what the service may send after a run Request
RunReplies ==
    {[status |-> 0, message |-> [Type |-> "", latency |-> l, handle |-> Absent]] : l \in Latencies}
    \cup {[status |-> s, message |-> [Type |-> "PerformanceData", latency |-> Absent, handle |-> Absent]] : s \in {0, 1}}
    \cup {[status |-> 1, message |-> [Type |-> "", latency |-> 1, handle |-> Absent]],
          [status |-> 0, message |-> [Type |-> "", latency |-> Absent, handle |-> Absent]],
          [status |-> 0, message |-> Garbage]}

VARIABLES
    \* main: command line, locals, position
    totalStreamNum, crossStreamNum, pipeline_repeats, warmupFlag,
    gpu_threadNum, npu_threadNum, main_pc, main_i, vThs,
    totalTime, totalFrames, exit_status,
    \* globals
    g_total, g_frameCnt, g_latency_sum, g_latency_count, g_mutex,
    \* report files on disk: name -> driver that wrote it last (0: not written)
    files,
    \* the clock, and the Responses the service has sent so far
    now, responses_sent,
    \* workload: locals of driver d and position of its thread
    drv_pc, rep, job_handle, frameCnt, isFirst,
    response_received, first_response_received, timeUsed, finish_status,
    \* reader lambda of driver d: position, the reply it holds, the value it
    \* loaded for an update of a global
    rd_pc, reply, reg,
    \* what driver d wrote to and read from its streams
    sent, handshakes, delivered,
    \* the index at which driver d appended to g_total and to g_frameCnt
    published

main_vars == <<totalStreamNum, crossStreamNum, pipeline_repeats, warmupFlag,
               gpu_threadNum, npu_threadNum, main_pc, main_i, vThs,
               totalTime, totalFrames, exit_status>>
global_vars == <<g_total, g_frameCnt, g_latency_sum, g_latency_count, g_mutex, files>>
env_vars == <<now, responses_sent>>
drv_vars == <<drv_pc, rep, job_handle, frameCnt, isFirst,
              response_received, first_response_received, timeUsed, finish_status>>
rd_vars == <<rd_pc, reply, reg>>
log_vars == <<sent, handshakes, delivered, published>>
vars == <<main_vars, global_vars, env_vars, drv_vars, rd_vars, log_vars>>

(* ------------------------------ helpers ------------------------------- *)
RECURSIVE SumSeq(_)
SumSeq(s) == IF s = <<>> THEN 0 ELSE Head(s) + SumSeq(Tail(s))

Min(a, b) == IF a < b THEN a ELSE b

Abs(x) == IF x < 0 THEN 0 - x ELSE x

Sign(x) == IF x < 0 THEN 0 - 1 ELSE IF x > 0 THEN 1 ELSE 0

RECURSIVE GCD(_, _)
GCD(a, b) == IF b = 0 THEN a ELSE GCD(b, a % b)

\* a float or double value as the exact fraction n / d in lowest terms; a zero
\* divisor gives the IEEE results: 1/0 is +inf, -1/0 is -inf, 0/0 is NaN
Rat(n, d) ==
    IF d = 0 THEN [num |-> Sign(n), den |-> 0]
    ELSE LET g == GCD(Abs(n), Abs(d)) IN
         [num |-> Sign(d) * (n \div g), den |-> Abs(d) \div g]

\* floating-point division a / b
RatDiv(a, b) == Rat(a.num * b.den, a.den * b.num)

\* std::chrono::high_resolution_clock::now(): every reading is one tick after the
\* last one, until the clock stops at MaxTime
ClockReadings == {Min(now + 1, MaxTime)}

FileNames == {<<"performance_data", k>> : k \in 0..MaxDrivers}
             \cup {<<"performance_data_additional", 0>>}

NoDelivery == [frames |-> 0, perf_failed |-> 0, lat_n |-> 0, lat_sum |-> 0]

(* --------------------------- decisions of main ------------------------ *)
\* a sanity check that is off by one
SanityCheckOffByOne(t, c) == t + 1 < c

\* "for sanity check": totalStreamNum < crossStreamNum
SanityCheckFails(t, c) == t < c

\* gpu_threadNum and npu_threadNum for a non-zero crossStreamNum
PartitionOf(t, c) == [gpu |-> t \div c, npu |-> t % c]

\* Unsigned division by zero is undefined: x86 traps (SIGFPE, "trap"), AArch64
\* yields quotient 0 and remainder t.
DivByZeroOutcomes(t) == {"trap", "quotient0"}

\* arguments of the i-th thread of the primary group
PrimaryArgs(i, c) ==
    [json |-> PrimaryJson, thread_id |-> i, stream_num |-> c,
     reportFileName |-> <<"performance_data", i>>]

\* arguments of the i-th thread of the secondary group (npu_crossStreamNum = 1)
SecondaryArgs(i) ==
    [json |-> AdditionalJson, thread_id |-> i, stream_num |-> 1,
     reportFileName |-> <<"performance_data_additional", 0>>]

\* a join that does not wait
JoinedWithoutWaiting(d) == TRUE

\* item.join() returns once workload has returned
Joined(d) == drv_pc[d] = "done"

\* a lock that never blocks
MutexAlwaysFree == TRUE

\* std::mutex: lock() goes through only while nobody holds it
MutexFree == g_mutex = NoThread

Running == exit_status = "running"

(* -------------------------------- Init -------------------------------- *)
InitState ==
    /\ gpu_threadNum = 0 /\ npu_threadNum = 0
    /\ main_pc = "sanity" /\ main_i = 0 /\ vThs = <<>>
    /\ totalTime = 0 /\ totalFrames = 0 /\ exit_status = "running"
    /\ g_total = <<>> /\ g_frameCnt = <<>>
    /\ g_latency_sum = 0 /\ g_latency_count = 0 /\ g_mutex = NoThread
    /\ files = [f \in FileNames |-> 0]
    /\ now = 1 /\ responses_sent = 0
    /\ drv_pc = [d \in Drivers |-> "unspawned"]
    /\ rep = [d \in Drivers |-> 0]
    /\ job_handle = [d \in Drivers |-> 0]
    /\ frameCnt = [d \in Drivers |-> 0]
    /\ isFirst = [d \in Drivers |-> FALSE]
    /\ response_received = [d \in Drivers |-> 0]
    /\ first_response_received = [d \in Drivers |-> 0]
    /\ timeUsed = [d \in Drivers |-> 0]
    /\ finish_status = [d \in Drivers |-> "none"]
    /\ rd_pc = [d \in Drivers |-> "none"]
    /\ reply = [d \in Drivers |-> NoReply]
    /\ reg = [d \in Drivers |-> 0]
    /\ sent = [d \in Drivers |-> <<>>]
    /\ handshakes = [d \in Drivers |-> <<>>]
    /\ delivered = [d \in Drivers |-> NoDelivery]
    /\ published = [d \in Drivers |-> [total |-> 0, frames |-> 0]]

\* driver threads main spawns for an accepted pair, under either outcome of t / 0
ThreadsOf(t, c) == IF c = 0 THEN t ELSE (t \div c) + (t % c)

\* a full run: few drivers and repeats, drivers that talk to the service; a
\* zero crossStreamNum with at most one stream (SpecPartition has the others)
Init ==
    /\ totalStreamNum \in 0..MaxSessions
    /\ crossStreamNum \in 0..MaxSessions
    /\ crossStreamNum = 0 => totalStreamNum <= 1
    /\ pipeline_repeats \in 0..MaxSessions
    /\ warmupFlag \in BOOLEAN
    /\ ThreadsOf(totalStreamNum, crossStreamNum) <= Min(MaxSessions, MaxDrivers)
    /\ ThreadsOf(totalStreamNum, crossStreamNum) * pipeline_repeats <= MaxSessions
    /\ InitState

(* ------------------------------- main --------------------------------- *)
AfterPartition(g, n) ==
    IF g > 0 THEN "spawn_gpu" ELSE IF n > 0 THEN "spawn_npu" ELSE "gpu_util"

\* the sanity check fails: return EXIT_FAILURE
SanityReject ==
    /\ Running /\ main_pc = "sanity"
    /\ SanityCheckFails(totalStreamNum, crossStreamNum)
    /\ main_pc' = "exit" /\ exit_status' = "failure"
    /\ UNCHANGED <<totalStreamNum, crossStreamNum, pipeline_repeats, warmupFlag,
                   gpu_threadNum, npu_threadNum, main_i, vThs, totalTime, totalFrames>>
    /\ UNCHANGED <<global_vars, env_vars, drv_vars, rd_vars, log_vars>>

\* the sanity check passes: gpu_threadNum, npu_threadNum
Partition ==
    /\ Running /\ main_pc = "sanity"
    /\ ~SanityCheckFails(totalStreamNum, crossStreamNum)
    /\ crossStreamNum # 0
    /\ LET p == PartitionOf(totalStreamNum, crossStreamNum) IN
        /\ gpu_threadNum' = p.gpu /\ npu_threadNum' = p.npu
        /\ main_pc' = AfterPartition(p.gpu, p.npu)
    /\ main_i' = 0
    /\ UNCHANGED <<totalStreamNum, crossStreamNum, pipeline_repeats, warmupFlag,
                   vThs, totalTime, totalFrames, exit_status>>
    /\ UNCHANGED <<global_vars, env_vars, drv_vars, rd_vars, log_vars>>

\* the sanity check passes with crossStreamNum = 0: the division is undefined
PartitionDivByZero ==
    /\ Running /\ main_pc = "sanity"
    /\ ~SanityCheckFails(totalStreamNum, crossStreamNum)
    /\ crossStreamNum = 0
    /\ \E o \in DivByZeroOutcomes(totalStreamNum) :
        IF o = "trap"
        THEN /\ exit_status' = "aborted" /\ main_pc' = "exit"
             /\ UNCHANGED <<gpu_threadNum, npu_threadNum>>
        ELSE /\ gpu_threadNum' = 0 /\ npu_threadNum' = totalStreamNum
             /\ main_pc' = AfterPartition(0, totalStreamNum)
             /\ UNCHANGED exit_status
    /\ main_i' = 0
    /\ UNCHANGED <<totalStreamNum, crossStreamNum, pipeline_repeats, warmupFlag,
                   vThs, totalTime, totalFrames>>
    /\ UNCHANGED <<global_vars, env_vars, drv_vars, rd_vars, log_vars>>

\* std::thread t(workload, ..., contents, ..., i, crossStreamNum, ...)
SpawnPrimary ==
    /\ Running /\ main_pc = "spawn_gpu" /\ main_i < gpu_threadNum
    /\ Len(vThs) < MaxDrivers
    /\ vThs' = Append(vThs, PrimaryArgs(main_i, crossStreamNum))
    /\ drv_pc' = [drv_pc EXCEPT ![Len(vThs) + 1] = "loop"]
    /\ IF main_i + 1 < gpu_threadNum
       THEN main_i' = main_i + 1 /\ UNCHANGED main_pc
       ELSE main_i' = 0 /\ main_pc' = AfterPartition(0, npu_threadNum)
    /\ UNCHANGED <<totalStreamNum, crossStreamNum, pipeline_repeats, warmupFlag,
                   gpu_threadNum, npu_threadNum, totalTime, totalFrames, exit_status>>
    /\ UNCHANGED <<rep, job_handle, frameCnt, isFirst, response_received,
                   first_response_received, timeUsed, finish_status>>
    /\ UNCHANGED <<global_vars, env_vars, rd_vars, log_vars>>

\* std::thread t(workload, ..., additionalContents, ..., i, npu_crossStreamNum, ...)
SpawnSecondary ==
    /\ Running /\ main_pc = "spawn_npu" /\ main_i < npu_threadNum
    /\ Len(vThs) < MaxDrivers
    /\ vThs' = Append(vThs, SecondaryArgs(main_i))
    /\ drv_pc' = [drv_pc EXCEPT ![Len(vThs) + 1] = "loop"]
    /\ IF main_i + 1 < npu_threadNum
       THEN main_i' = main_i + 1 /\ UNCHANGED main_pc
       ELSE main_i' = 0 /\ main_pc' = "gpu_util"
    /\ UNCHANGED <<totalStreamNum, crossStreamNum, pipeline_repeats, warmupFlag,
                   gpu_threadNum, npu_threadNum, totalTime, totalFrames, exit_status>>
    /\ UNCHANGED <<rep, job_handle, frameCnt, isFirst, response_received,
                   first_response_received, timeUsed, finish_status>>
    /\ UNCHANGED <<global_vars, env_vars, rd_vars, log_vars>>

\* getGPUUtilization(interval) >= 0: go on to join the drivers
GpuUtilizationStarted ==
    /\ Running /\ main_pc = "gpu_util"
    /\ main_pc' = "join" /\ main_i' = 1
    /\ UNCHANGED <<totalStreamNum, crossStreamNum, pipeline_repeats, warmupFlag,
                   gpu_threadNum, npu_threadNum, vThs, totalTime, totalFrames, exit_status>>
    /\ UNCHANGED <<global_vars, env_vars, drv_vars, rd_vars, log_vars>>

\* getGPUUtilization(interval) < 0: return EXIT_FAILURE; leaving main destroys
\* vThs, and destroying a joinable std::thread calls std::terminate
GpuUtilizationFailed ==
    /\ Running /\ main_pc = "gpu_util"
    /\ main_pc' = "exit"
    /\ exit_status' = IF vThs = <<>> THEN "failure" ELSE "aborted"
    /\ UNCHANGED <<totalStreamNum, crossStreamNum, pipeline_repeats, warmupFlag,
                   gpu_threadNum, npu_threadNum, main_i, vThs, totalTime, totalFrames>>
    /\ UNCHANGED <<global_vars, env_vars, drv_vars, rd_vars, log_vars>>

\* for (auto &item : vThs) item.join();
JoinDriver ==
    /\ Running /\ main_pc = "join" /\ main_i <= Len(vThs)
    /\ Joined(main_i)
    /\ main_i' = main_i + 1
    /\ UNCHANGED <<totalStreamNum, crossStreamNum, pipeline_repeats, warmupFlag,
                   gpu_threadNum, npu_threadNum, main_pc, vThs, totalTime, totalFrames,
                   exit_status>>
    /\ UNCHANGED <<global_vars, env_vars, drv_vars, rd_vars, log_vars>>

\* performance check: std::lock_guard<std::mutex> lg(g_mutex)
FinalizeLock ==
    /\ Running /\ main_pc = "join" /\ main_i > Len(vThs)
    /\ MutexFree
    /\ g_mutex' = MainThread
    /\ main_pc' = "finalize"
    /\ UNCHANGED <<totalStreamNum, crossStreamNum, pipeline_repeats, warmupFlag,
                   gpu_threadNum, npu_threadNum, main_i, vThs, totalTime, totalFrames,
                   exit_status>>
    /\ UNCHANGED <<g_total, g_frameCnt, g_latency_sum, g_latency_count, files>>
    /\ UNCHANGED <<env_vars, drv_vars, rd_vars, log_vars>>

\* totalTime += g_total[tix]; totalFrames += g_frameCnt[tix]; ...; return 0
Finalize ==
    /\ Running /\ main_pc = "finalize"
    /\ totalTime' = SumSeq(g_total)
    /\ totalFrames' = SumSeq(SubSeq(g_frameCnt, 1, Min(Len(g_total), Len(g_frameCnt))))
    /\ main_pc' = "exit" /\ exit_status' = "ok"
    /\ UNCHANGED <<totalStreamNum, crossStreamNum, pipeline_repeats, warmupFlag,
                   gpu_threadNum, npu_threadNum, main_i, vThs>>
    /\ UNCHANGED <<global_vars, env_vars, drv_vars, rd_vars, log_vars>>

\* frames per stream computed in integer arithmetic
FramesPerStreamInIntegers(frames, repeats, streams) ==
    IF streams = 0 THEN Rat(frames - repeats, 0)
    ELSE Rat((frames - repeats) \div streams, 1)

\* ((float)totalFrames - pipeline_repeats) / totalStreamNum
FramesPerStream(frames, repeats, streams) == Rat(frames - repeats, streams)

\* float mean = totalTime / g_total.size()
mean == RatDiv(Rat(totalTime, 1), Rat(Len(g_total), 1))

\* float fps = (((float)totalFrames - pipeline_repeats) / totalStreamNum) / (mean / 1000.0)
fps ==
    RatDiv(FramesPerStream(totalFrames, pipeline_repeats, totalStreamNum),
           RatDiv(mean, Rat(1000, 1)))

MainNext ==
    \/ SanityReject \/ Partition \/ PartitionDivByZero
    \/ SpawnPrimary \/ SpawnSecondary
    \/ GpuUtilizationStarted \/ GpuUtilizationFailed
    \/ JoinDriver \/ FinalizeLock \/ Finalize

(* ------------------------- decisions of workload ---------------------- *)
Spawned == 1..Len(vThs)

\* a handshake in every repeat, whether or not a handle is held
NeedsHandshakeIgnoringHandle(w, h) == w

\* if (warmup_flag && job_handle == 0)
NeedsHandshake(w, h) == w /\ h = 0

\* read_json(ss, jsonMessage) throws on a message that is no JSON
ReadJsonThrows(m) == m = Garbage

\* the handshake block throws: read_json fails, or get<size_t>("handle") finds no handle
HandshakeThrows(r) ==
    r.status = 0 /\ (ReadJsonThrows(r.message) \/ r.message.handle = Absent)

\* a handle taken from the Response whatever its status
HandleIgnoringStatus(r, h) == IF r.message.handle # Absent THEN r.message.handle ELSE h

\* job_handle after the handshake Response r
HandleAfterHandshake(r, h) == IF r.status = 0 THEN r.message.handle ELSE h

\* the load_pipeline Request
LoadPipelineRequest(d) ==
    [target |-> "load_pipeline", pipelineconfig |-> vThs[d].json, jobhandle |-> 0,
     suggestedweight |-> 0, streamnum |-> vThs[d].stream_num, mediauri |-> 0,
     rep |-> rep[d]]

\* a run Request that always carries the configuration, with the handle if any
RunRequestWithConfigAlways(d) ==
    [target |-> "run", pipelineconfig |-> vThs[d].json,
     jobhandle |-> IF job_handle[d] > 0 THEN job_handle[d] ELSE 0,
     suggestedweight |-> 0, streamnum |-> vThs[d].stream_num,
     mediauri |-> vThs[d].stream_num, rep |-> rep[d]]

\* the run Request; inputs holds stream_num copies of the repeated media list
RunRequest(d) ==
    [target |-> "run",
     pipelineconfig |-> IF job_handle[d] > 0 THEN NoConfig ELSE vThs[d].json,
     jobhandle |-> IF job_handle[d] > 0 THEN job_handle[d] ELSE 0,
     suggestedweight |-> 0, streamnum |-> vThs[d].stream_num,
     mediauri |-> vThs[d].stream_num, rep |-> rep[d]]

\* the type tag looked at before the status
PerformanceDataIgnoringStatus(r) ==
    ~ReadJsonThrows(r.message) /\ r.message.Type = "PerformanceData"

\* jsonMessage.get<std::string>("Type", "") == "PerformanceData", reached for status 0
IsPerformanceData(r) ==
    r.status = 0 /\ ~ReadJsonThrows(r.message) /\ r.message.Type = "PerformanceData"

\* the read loop throws: read_json fails, or get<double>("latency") finds no latency
ReaderThrows(r) ==
    /\ r.status = 0
    /\ \/ ReadJsonThrows(r.message)
       \/ r.message.Type # "PerformanceData" /\ r.message.latency = Absent

\* a latency recorded whatever the status
RecordsLatencyIgnoringStatus(r) ==
    ~ReadJsonThrows(r.message)
    /\ r.message.Type # "PerformanceData" /\ r.message.latency # Absent

\* the else branch: g_latency_sum += latency; ++g_latency_count
RecordsLatency(r) ==
    r.status = 0 /\ ~ReadJsonThrows(r.message)
    /\ r.message.Type # "PerformanceData" /\ r.message.latency # Absent

\* a driver that goes on without waiting for its read loop
ReaderJoinedWithoutWaiting(d) == TRUE

\* reader.join() returns once the reader lambda has returned
ReaderJoined(d) == rd_pc[d] = "exited"

\* grpc::Status of stream->Finish(): ok or an error code
FinishStatuses == {"OK", "error"}

\* a driver that leaves the repeat loop when a session finishes with an error
AfterFinishBreakOnError(st) == IF st = "OK" THEN "loop" ELSE "publish"

\* if (!status.ok()) only logs: the driver goes on to the next repeat
AfterFinish(st) == "loop"

\* thisTime = response_received - first_response_received, in milliseconds
ThisTime(received, first) == received - first

\* a saved report that falls through to the frame count
AfterSaveReportFallsThrough == "count"

\* continue: after the report is saved the loop goes back to stream->Read
AfterSaveReport == "read"

\* a guard that outlives the loop body: the mutex stays with the read loop
MutexKeptAcrossRead(d) == ReaderThread(d)

\* the lock_guard of the loop body goes out of scope before the next stream->Read
MutexAfterIteration(d) == NoThread

\* what a Response read by the read loop adds to the account of the stream
Deliver(acc, r) ==
    LET perf == r.message.Type = "PerformanceData"
        lat == r.status = 0 /\ ~perf /\ r.message # Garbage /\ r.message.latency # Absent
    IN [frames |-> acc.frames + (IF perf THEN 0 ELSE 1),
        perf_failed |-> acc.perf_failed + (IF perf /\ r.status # 0 THEN 1 ELSE 0),
        lat_n |-> acc.lat_n + (IF lat THEN 1 ELSE 0),
        lat_sum |-> acc.lat_sum + (IF lat THEN r.message.latency ELSE 0)]

\* a driver that writes the run Request without reading the handshake Response
ReadyToRunBeforeHandshakeReply(d) ==
    \/ drv_pc[d] \in {"run", "handshake"}
    \/ /\ drv_pc[d] = "loop" /\ rep[d] < pipeline_repeats
       /\ ~NeedsHandshake(warmupFlag, job_handle[d])

\* the driver is at the run Request: after the handshake block, or at the top of
\* a repeat that needs no handshake
ReadyToRun(d) ==
    \/ drv_pc[d] = "run"
    \/ /\ drv_pc[d] = "loop" /\ rep[d] < pipeline_repeats
       /\ ~NeedsHandshake(warmupFlag, job_handle[d])

(* ------------------------------ workload ------------------------------ *)
\* a new repeat without a handle: write load_pipeline
SendLoadPipeline(d) ==
    /\ Running /\ d \in Spawned /\ drv_pc[d] = "loop"
    /\ rep[d] < pipeline_repeats
    /\ NeedsHandshake(warmupFlag, job_handle[d])
    /\ isFirst' = [isFirst EXCEPT ![d] = TRUE]
    /\ sent' = [sent EXCEPT ![d] = Append(@, LoadPipelineRequest(d))]
    /\ drv_pc' = [drv_pc EXCEPT ![d] = "handshake"]
    /\ UNCHANGED <<rep, job_handle, frameCnt, response_received,
                   first_response_received, timeUsed, finish_status>>
    /\ UNCHANGED <<handshakes, delivered, published>>
    /\ UNCHANGED <<main_vars, global_vars, env_vars, rd_vars>>

\* stream->Read(&reply) of the handshake, and the handle it yields
ReadHandshake(d) ==
    /\ Running /\ d \in Spawned /\ drv_pc[d] = "handshake"
    /\ \E r \in HandshakeReplies :
        /\ handshakes' = [handshakes EXCEPT ![d] = Append(@, [status |-> r.status, rep |-> rep[d]])]
        /\ IF HandshakeThrows(r)
           THEN /\ exit_status' = "aborted"
                /\ UNCHANGED <<job_handle, drv_pc>>
           ELSE /\ job_handle' = [job_handle EXCEPT ![d] = HandleAfterHandshake(r, @)]
                /\ drv_pc' = [drv_pc EXCEPT ![d] = "run"]
                /\ UNCHANGED exit_status
    /\ UNCHANGED <<totalStreamNum, crossStreamNum, pipeline_repeats, warmupFlag,
                   gpu_threadNum, npu_threadNum, main_pc, main_i, vThs, totalTime,
                   totalFrames>>
    /\ UNCHANGED <<rep, frameCnt, isFirst, response_received,
                   first_response_received, timeUsed, finish_status>>
    /\ UNCHANGED <<sent, delivered, published>>
    /\ UNCHANGED <<global_vars, env_vars, rd_vars>>

\* write the run Request and start the reader thread
SendRun(d) ==
    /\ Running /\ d \in Spawned
    /\ ReadyToRun(d)
    /\ isFirst' = [isFirst EXCEPT ![d] = TRUE]
    /\ sent' = [sent EXCEPT ![d] = Append(@, RunRequest(d))]
    /\ drv_pc' = [drv_pc EXCEPT ![d] = "join"]
    /\ rd_pc' = [rd_pc EXCEPT ![d] = "read"]
    /\ UNCHANGED <<rep, job_handle, frameCnt, response_received,
                   first_response_received, timeUsed, finish_status>>
    /\ UNCHANGED <<reply, reg>>
    /\ UNCHANGED <<handshakes, delivered, published>>
    /\ UNCHANGED <<main_vars, global_vars, env_vars>>

\* reader.join() returns: the read-loop thread of this repeat has ended
JoinReader(d) ==
    /\ Running /\ d \in Spawned /\ drv_pc[d] = "join"
    /\ ReaderJoined(d)
    /\ rd_pc' = [rd_pc EXCEPT ![d] = "none"]
    /\ drv_pc' = [drv_pc EXCEPT ![d] = "writes_done"]
    /\ UNCHANGED <<rep, job_handle, frameCnt, isFirst, response_received,
                   first_response_received, timeUsed, finish_status>>
    /\ UNCHANGED <<reply, reg>>
    /\ UNCHANGED <<main_vars, global_vars, env_vars, log_vars>>

\* stream->WritesDone(): the driver signals end-of-writes
WritesDone(d) ==
    /\ Running /\ d \in Spawned /\ drv_pc[d] = "writes_done"
    /\ drv_pc' = [drv_pc EXCEPT ![d] = "finish"]
    /\ UNCHANGED <<rep, job_handle, frameCnt, isFirst, response_received,
                   first_response_received, timeUsed, finish_status>>
    /\ UNCHANGED <<main_vars, global_vars, env_vars, rd_vars, log_vars>>

\* status = stream->Finish(), logged when not ok; response_received = now();
\* thisTime = response_received - first_response_received;
\* timeUsed = thisTime + timeUsed; end of the repeat
Finish(d) ==
    /\ Running /\ d \in Spawned /\ drv_pc[d] = "finish"
    /\ \E st \in FinishStatuses, t \in ClockReadings :
        /\ finish_status' = [finish_status EXCEPT ![d] = st]
        /\ now' = t
        /\ response_received' = [response_received EXCEPT ![d] = t]
        /\ timeUsed' = [timeUsed EXCEPT ![d] = ThisTime(t, first_response_received[d]) + @]
        /\ drv_pc' = [drv_pc EXCEPT ![d] = AfterFinish(st)]
    /\ rep' = [rep EXCEPT ![d] = @ + 1]
    /\ UNCHANGED <<job_handle, frameCnt, isFirst, first_response_received>>
    /\ UNCHANGED responses_sent
    /\ UNCHANGED <<main_vars, global_vars, rd_vars, log_vars>>

\* the repeat loop is over
LoopExit(d) ==
    /\ Running /\ d \in Spawned /\ drv_pc[d] = "loop"
    /\ rep[d] >= pipeline_repeats
    /\ drv_pc' = [drv_pc EXCEPT ![d] = "publish"]
    /\ UNCHANGED <<rep, job_handle, frameCnt, isFirst, response_received,
                   first_response_received, timeUsed, finish_status>>
    /\ UNCHANGED <<main_vars, global_vars, env_vars, rd_vars, log_vars>>

\* std::lock_guard lg(g_mutex); g_total.push_back(timeUsed.count())
PublishTotal(d) ==
    /\ Running /\ d \in Spawned /\ drv_pc[d] = "publish"
    /\ MutexFree
    /\ g_mutex' = DriverThread(d)
    /\ g_total' = Append(g_total, timeUsed[d])
    /\ published' = [published EXCEPT ![d].total = Len(g_total) + 1]
    /\ drv_pc' = [drv_pc EXCEPT ![d] = "publish_frames"]
    /\ UNCHANGED <<rep, job_handle, frameCnt, isFirst, response_received,
                   first_response_received, timeUsed, finish_status>>
    /\ UNCHANGED <<g_frameCnt, g_latency_sum, g_latency_count, files>>
    /\ UNCHANGED <<sent, handshakes, delivered>>
    /\ UNCHANGED <<main_vars, env_vars, rd_vars>>

\* g_frameCnt.push_back(frameCnt); return (lg releases g_mutex)
PublishFrameCnt(d) ==
    /\ Running /\ d \in Spawned /\ drv_pc[d] = "publish_frames"
    /\ g_frameCnt' = Append(g_frameCnt, frameCnt[d])
    /\ published' = [published EXCEPT ![d].frames = Len(g_frameCnt) + 1]
    /\ g_mutex' = NoThread
    /\ drv_pc' = [drv_pc EXCEPT ![d] = "done"]
    /\ UNCHANGED <<rep, job_handle, frameCnt, isFirst, response_received,
                   first_response_received, timeUsed, finish_status>>
    /\ UNCHANGED <<g_total, g_latency_sum, g_latency_count, files>>
    /\ UNCHANGED <<sent, handshakes, delivered>>
    /\ UNCHANGED <<main_vars, env_vars, rd_vars>>

(* ------------------------- reader (the read loop) --------------------- *)
\* while (stream->Read(&reply)): a Response arrives; response_received = now()
ReadResponse(d) ==
    /\ Running /\ d \in Spawned /\ rd_pc[d] = "read"
    /\ responses_sent < MaxResponses
    /\ \E r \in RunReplies, t \in ClockReadings :
        /\ reply' = [reply EXCEPT ![d] = r]
        /\ delivered' = [delivered EXCEPT ![d] = Deliver(@, r)]
        /\ now' = t
        /\ response_received' = [response_received EXCEPT ![d] = t]
    /\ responses_sent' = responses_sent + 1
    /\ rd_pc' = [rd_pc EXCEPT ![d] = IF isFirst[d] THEN "first_lock" ELSE "process"]
    /\ UNCHANGED <<drv_pc, rep, job_handle, frameCnt, isFirst,
                   first_response_received, timeUsed, finish_status>>
    /\ UNCHANGED <<reg, sent, handshakes, published>>
    /\ UNCHANGED <<main_vars, global_vars>>

\* stream->Read(&reply) returns false: the stream is closed, the thread ends
ReadEndOfStream(d) ==
    /\ Running /\ d \in Spawned /\ rd_pc[d] = "read"
    /\ rd_pc' = [rd_pc EXCEPT ![d] = "exited"]
    /\ UNCHANGED <<reply, reg>>
    /\ UNCHANGED <<main_vars, global_vars, env_vars, drv_vars, log_vars>>

\* if (isFirst) { lock_guard lg(g_mutex); first_response_received = ...; isFirst = false;
FirstLock(d) ==
    /\ Running /\ d \in Spawned /\ rd_pc[d] = "first_lock"
    /\ MutexFree
    /\ g_mutex' = ReaderThread(d)
    /\ first_response_received' = [first_response_received EXCEPT ![d] = response_received[d]]
    /\ isFirst' = [isFirst EXCEPT ![d] = FALSE]
    /\ rd_pc' = [rd_pc EXCEPT ![d] = "first_unlock"]
    /\ UNCHANGED <<drv_pc, rep, job_handle, frameCnt, response_received, timeUsed, finish_status>>
    /\ UNCHANGED <<g_total, g_frameCnt, g_latency_sum, g_latency_count, files>>
    /\ UNCHANGED <<reply, reg>>
    /\ UNCHANGED <<main_vars, env_vars, log_vars>>

\* } the guard of the isFirst block goes out of scope
FirstUnlock(d) ==
    /\ Running /\ d \in Spawned /\ rd_pc[d] = "first_unlock"
    /\ g_mutex' = NoThread
    /\ rd_pc' = [rd_pc EXCEPT ![d] = "process"]
    /\ UNCHANGED <<g_total, g_frameCnt, g_latency_sum, g_latency_count, files>>
    /\ UNCHANGED <<reply, reg>>
    /\ UNCHANGED <<main_vars, env_vars, drv_vars, log_vars>>

\* reply.status() != 0: nothing is decoded
ProcessFailedStatus(d) ==
    /\ Running /\ d \in Spawned /\ rd_pc[d] = "process"
    /\ reply[d].status # 0
    /\ rd_pc' = [rd_pc EXCEPT ![d] = "count"]
    /\ UNCHANGED <<reply, reg>>
    /\ UNCHANGED <<main_vars, global_vars, env_vars, drv_vars, log_vars>>

\* read_json or get<double>("latency") throws in the reader thread: std::terminate
ProcessThrows(d) ==
    /\ Running /\ d \in Spawned /\ rd_pc[d] = "process"
    /\ ReaderThrows(reply[d])
    /\ exit_status' = "aborted"
    /\ UNCHANGED <<totalStreamNum, crossStreamNum, pipeline_repeats, warmupFlag,
                   gpu_threadNum, npu_threadNum, main_pc, main_i, vThs, totalTime,
                   totalFrames>>
    /\ UNCHANGED <<global_vars, env_vars, drv_vars, rd_vars, log_vars>>

\* "PerformanceData": write_json(reportFileName, jsonMessage); continue
SaveReport(d) ==
    /\ Running /\ d \in Spawned /\ rd_pc[d] = "process"
    /\ IsPerformanceData(reply[d])
    /\ files' = [files EXCEPT ![vThs[d].reportFileName] = d]
    /\ reply' = [reply EXCEPT ![d] = NoReply]
    /\ rd_pc' = [rd_pc EXCEPT ![d] = AfterSaveReport]
    /\ UNCHANGED <<g_total, g_frameCnt, g_latency_sum, g_latency_count, g_mutex>>
    /\ UNCHANGED reg
    /\ UNCHANGED <<main_vars, env_vars, drv_vars, log_vars>>

\* g_latency_sum += latency, first half: load g_latency_sum (g_mutex is not held)
LoadLatencySum(d) ==
    /\ Running /\ d \in Spawned /\ rd_pc[d] = "process"
    /\ RecordsLatency(reply[d])
    /\ reg' = [reg EXCEPT ![d] = g_latency_sum]
    /\ rd_pc' = [rd_pc EXCEPT ![d] = "store_sum"]
    /\ UNCHANGED reply
    /\ UNCHANGED <<main_vars, global_vars, env_vars, drv_vars, log_vars>>

\* g_latency_sum += latency, second half: store the sum
StoreLatencySum(d) ==
    /\ Running /\ d \in Spawned /\ rd_pc[d] = "store_sum"
    /\ g_latency_sum' = reg[d] + reply[d].message.latency
    /\ rd_pc' = [rd_pc EXCEPT ![d] = "load_count"]
    /\ UNCHANGED <<g_total, g_frameCnt, g_latency_count, g_mutex, files>>
    /\ UNCHANGED <<reply, reg>>
    /\ UNCHANGED <<main_vars, env_vars, drv_vars, log_vars>>

\* ++g_latency_count, first half: load g_latency_count
LoadLatencyCount(d) ==
    /\ Running /\ d \in Spawned /\ rd_pc[d] = "load_count"
    /\ reg' = [reg EXCEPT ![d] = g_latency_count]
    /\ rd_pc' = [rd_pc EXCEPT ![d] = "store_count"]
    /\ UNCHANGED reply
    /\ UNCHANGED <<main_vars, global_vars, env_vars, drv_vars, log_vars>>

\* ++g_latency_count, second half: store the count
StoreLatencyCount(d) ==
    /\ Running /\ d \in Spawned /\ rd_pc[d] = "store_count"
    /\ g_latency_count' = reg[d] + 1
    /\ reg' = [reg EXCEPT ![d] = 0]
    /\ rd_pc' = [rd_pc EXCEPT ![d] = "count"]
    /\ UNCHANGED <<g_total, g_frameCnt, g_latency_sum, g_mutex, files>>
    /\ UNCHANGED reply
    /\ UNCHANGED <<main_vars, env_vars, drv_vars, log_vars>>

\* frameCnt += 1; std::lock_guard lg(g_mutex); curFPS ...
CountFrame(d) ==
    /\ Running /\ d \in Spawned /\ rd_pc[d] = "count"
    /\ MutexFree
    /\ g_mutex' = ReaderThread(d)
    /\ frameCnt' = [frameCnt EXCEPT ![d] = @ + 1]
    /\ rd_pc' = [rd_pc EXCEPT ![d] = "end_iteration"]
    /\ UNCHANGED <<drv_pc, rep, job_handle, isFirst, response_received,
                   first_response_received, timeUsed, finish_status>>
    /\ UNCHANGED <<g_total, g_frameCnt, g_latency_sum, g_latency_count, files>>
    /\ UNCHANGED <<reply, reg>>
    /\ UNCHANGED <<main_vars, env_vars, log_vars>>

\* end of the loop body: lg releases g_mutex, back to stream->Read
EndIteration(d) ==
    /\ Running /\ d \in Spawned /\ rd_pc[d] = "end_iteration"
    /\ g_mutex' = MutexAfterIteration(d)
    /\ reply' = [reply EXCEPT ![d] = NoReply]
    /\ rd_pc' = [rd_pc EXCEPT ![d] = "read"]
    /\ UNCHANGED <<g_total, g_frameCnt, g_latency_sum, g_latency_count, files>>
    /\ UNCHANGED reg
    /\ UNCHANGED <<main_vars, env_vars, drv_vars, log_vars>>

(* --------------------------- specifications --------------------------- *)
WorkloadNext(d) ==
    \/ SendLoadPipeline(d) \/ ReadHandshake(d) \/ SendRun(d)
    \/ JoinReader(d) \/ WritesDone(d) \/ Finish(d)
    \/ LoopExit(d) \/ PublishTotal(d) \/ PublishFrameCnt(d)

ReaderNext(d) ==
    \/ ReadResponse(d) \/ ReadEndOfStream(d)
    \/ FirstLock(d) \/ FirstUnlock(d)
    \/ ProcessFailedStatus(d) \/ ProcessThrows(d) \/ SaveReport(d)
    \/ LoadLatencySum(d) \/ StoreLatencySum(d)
    \/ LoadLatencyCount(d) \/ StoreLatencyCount(d)
    \/ CountFrame(d) \/ EndIteration(d)

Next ==
    \/ MainNext
    \/ \E d \in Drivers : WorkloadNext(d)
    \/ \E d \in Drivers : ReaderNext(d)

Spec == Init /\ [][Next]_vars

\* the orchestrator alone: pipeline_repeats = 0, so that every driver goes
\* straight to publishing its (empty) totals; any pair of stream numbers
InitPartition ==
    /\ totalStreamNum \in 0..MaxPartStreams
    /\ crossStreamNum \in 0..MaxPartStreams
    /\ pipeline_repeats = 0
    /\ warmupFlag \in BOOLEAN
    /\ \/ totalStreamNum < crossStreamNum
       \/ ThreadsOf(totalStreamNum, crossStreamNum) <= MaxDrivers
    /\ InitState

NextPartition ==
    \/ MainNext
    \/ \E d \in Drivers : LoopExit(d) \/ PublishTotal(d) \/ PublishFrameCnt(d)

SpecPartition == InitPartition /\ [][NextPartition]_vars

\* the drivers whose streams the service serves when it stalls one stream: all
\* but the last one spawned
Served == 1..(MaxStallDrivers - 1)

\* three drivers of one stream and one repeat each, warmup off; the service never
\* responds on the stream of the last driver and never closes it
InitStall ==
    /\ totalStreamNum = MaxStallDrivers /\ crossStreamNum = 1
    /\ pipeline_repeats = 1
    /\ warmupFlag = FALSE
    /\ InitState

NextStall ==
    \/ Partition \/ SpawnPrimary \/ GpuUtilizationStarted \/ JoinDriver
    \/ \E d \in Drivers :
        \/ SendRun(d) \/ JoinReader(d) \/ WritesDone(d) \/ Finish(d)
        \/ LoopExit(d) \/ PublishTotal(d) \/ PublishFrameCnt(d)
    \/ \E d \in Served : ReaderNext(d)

SpecStall == InitStall /\ [][NextStall]_vars

\* elapsed milliseconds and frame counts a driver may have published
ElapsedMs == {0, 20000, 30000}
FrameCounts == {5, 250, 1000}
FinalizeRepeats == {1, 5}

\* the run Requests of a driver that ran all its repeats with warmup off
RunRequestsOf(json, stream_num, repeats) ==
    [k \in 1..repeats |->
        [target |-> "run", pipelineconfig |-> json, jobhandle |-> 0,
         suggestedweight |-> 0, streamnum |-> stream_num, mediauri |-> stream_num,
         rep |-> k - 1]]

\* the final report alone: every driver has run all its repeats (warmup off,
\* every Response of non-zero status), has published its totals in the order of
\* spawning and has returned; main is about to join the drivers
InitFinalize ==
    /\ totalStreamNum = MaxFinalizeStreams
    /\ crossStreamNum \in {c \in 1..MaxFinalizeStreams : MaxFinalizeStreams % c = 0}
    /\ totalStreamNum \div crossStreamNum <= MaxDrivers
    /\ pipeline_repeats \in FinalizeRepeats
    /\ warmupFlag = FALSE
    /\ gpu_threadNum = totalStreamNum \div crossStreamNum /\ npu_threadNum = 0
    /\ main_pc = "join" /\ main_i = 1
    /\ vThs = [k \in 1..gpu_threadNum |-> PrimaryArgs(k - 1, crossStreamNum)]
    /\ totalTime = 0 /\ totalFrames = 0 /\ exit_status = "running"
    /\ timeUsed \in [Drivers -> ElapsedMs]
    /\ frameCnt \in [Drivers -> FrameCounts \cup {0}]
    /\ \A d \in Drivers :
        IF d <= gpu_threadNum THEN frameCnt[d] # 0
        ELSE timeUsed[d] = 0 /\ frameCnt[d] = 0
    /\ g_total = [k \in 1..gpu_threadNum |-> timeUsed[k]]
    /\ g_frameCnt = [k \in 1..gpu_threadNum |-> frameCnt[k]]
    /\ g_latency_sum = 0 /\ g_latency_count = 0 /\ g_mutex = NoThread
    /\ files = [f \in FileNames |-> 0]
    /\ now = MaxTime /\ responses_sent = MaxResponses
    /\ drv_pc = [d \in Drivers |-> IF d <= gpu_threadNum THEN "done" ELSE "unspawned"]
    /\ rep = [d \in Drivers |-> IF d <= gpu_threadNum THEN pipeline_repeats ELSE 0]
    /\ job_handle = [d \in Drivers |-> 0]
    /\ isFirst = [d \in Drivers |-> FALSE]
    /\ response_received = [d \in Drivers |-> IF d <= gpu_threadNum THEN MaxTime ELSE 0]
    /\ first_response_received = [d \in Drivers |-> IF d <= gpu_threadNum THEN 1 ELSE 0]
    /\ finish_status = [d \in Drivers |-> IF d <= gpu_threadNum THEN "OK" ELSE "none"]
    /\ rd_pc = [d \in Drivers |-> "none"]
    /\ reply = [d \in Drivers |-> NoReply]
    /\ reg = [d \in Drivers |-> 0]
    /\ sent = [d \in Drivers |->
                IF d <= gpu_threadNum
                THEN RunRequestsOf(PrimaryJson, crossStreamNum, pipeline_repeats)
                ELSE <<>>]
    /\ handshakes = [d \in Drivers |-> <<>>]
    /\ delivered = [d \in Drivers |->
                     [frames |-> frameCnt[d], perf_failed |-> 0, lat_n |-> 0, lat_sum |-> 0]]
    /\ published = [d \in Drivers |->
                     IF d <= gpu_threadNum THEN [total |-> d, frames |-> d]
                     ELSE [total |-> 0, frames |-> 0]]

NextFinalize == JoinDriver \/ FinalizeLock \/ Finalize

SpecFinalize == InitFinalize /\ [][NextFinalize]_vars

\* accepted runs with a non-zero crossStreamNum and at least one repeat, in which
\* the resource sampler starts: main and every thread it starts are scheduled
\* fairly, and the service answers every read (a handshake is answered, a
\* stream yields a Response or is closed)
InitLive ==
    /\ totalStreamNum \in 1..MaxSessions
    /\ crossStreamNum \in 1..MaxSessions
    /\ totalStreamNum % crossStreamNum = 0
    /\ pipeline_repeats \in 1..MaxSessions
    /\ warmupFlag \in BOOLEAN
    /\ ThreadsOf(totalStreamNum, crossStreamNum) * pipeline_repeats <= MaxSessions
    /\ InitState

MainLive ==
    \/ Partition \/ SpawnPrimary \/ GpuUtilizationStarted
    \/ JoinDriver \/ FinalizeLock \/ Finalize

NextLive ==
    \/ MainLive
    \/ \E d \in Drivers : WorkloadNext(d)
    \/ \E d \in Drivers : ReaderNext(d)

Fairness ==
    /\ WF_vars(MainLive)
    /\ \A d \in Drivers : WF_vars(WorkloadNext(d)) /\ WF_vars(ReaderNext(d))

SpecLive == InitLive /\ [][NextLive]_vars /\ Fairness

(* ------------------------------- claims ------------------------------- *)
\* every spawned driver has returned and main has left the join loop
AllJoined == main_pc = "finalize" \/ (main_pc = "exit" /\ exit_status = "ok")

\* latencies the read loops set out to record, as a sequential execution adds them
IssuedLatencyCount == SumSeq([d \in Spawned |-> delivered[d].lat_n])
IssuedLatencySum == SumSeq([d \in Spawned |-> delivered[d].lat_sum])

\* C1: once all drivers have returned, the latency sum and count are those of a
\* sequential execution of the same updates: no update lost, none counted twice.
C1_SequentialLatencyTotals ==
    AllJoined =>
        /\ g_latency_count = IssuedLatencyCount
        /\ g_latency_sum = IssuedLatencySum

\* the requests driver d appends in this step
NewRequests(d) == SubSeq(sent'[d], Len(sent[d]) + 1, Len(sent'[d]))

\* C2: once a driver holds a non-zero handle, the handle never changes and every
\* run Request it sends from then on carries that handle and no pipelineConfig.
C2_HandleReuse ==
    [][\A d \in Drivers :
        job_handle[d] # 0 =>
            /\ job_handle'[d] = job_handle[d]
            /\ \A k \in 1..Len(NewRequests(d)) :
                NewRequests(d)[k].target = "run" =>
                    /\ NewRequests(d)[k].jobhandle = job_handle[d]
                    /\ NewRequests(d)[k].pipelineconfig = NoConfig]_vars

\* C2 witness: a run Request of the second repeat carries the handle obtained in
\* the first repeat.
C2_Witness ==
    \E d \in Spawned :
        /\ Len(sent[d]) = 3
        /\ sent[d][1].target = "load_pipeline" /\ sent[d][1].rep = 0
        /\ sent[d][2].target = "run" /\ sent[d][2].jobhandle # 0
        /\ sent[d][3].target = "run" /\ sent[d][3].rep = 1
        /\ sent[d][3].jobhandle = sent[d][2].jobhandle

\* C3 as claimed: after a handshake Response with non-zero status, no later
\* repeat of that driver sends load_pipeline, and every later run Request carries
\* the full pipelineConfig.
C3_NoHandshakeRetry ==
    \A d \in Spawned : \A j \in 1..Len(handshakes[d]) :
        handshakes[d][j].status # 0 =>
            \A k \in 1..Len(sent[d]) :
                sent[d][k].rep > handshakes[d][j].rep =>
                    /\ sent[d][k].target # "load_pipeline"
                    /\ sent[d][k].pipelineconfig = vThs[d].json

\* C3 amended: after a handshake Response with non-zero status the run Request of
\* that repeat carries the full pipelineConfig and no handle; and the handshake
\* is retried: with warmup on, every run Request without a handle is preceded in
\* its own repeat by a load_pipeline Request.
C3_FailedHandshakeFallsBackAndRetries ==
    \A d \in Spawned :
        /\ \A j \in 1..Len(handshakes[d]) : \A k \in 1..Len(sent[d]) :
            (/\ handshakes[d][j].status # 0
             /\ sent[d][k].target = "run"
             /\ sent[d][k].rep = handshakes[d][j].rep) =>
                /\ sent[d][k].jobhandle = 0
                /\ sent[d][k].pipelineconfig = vThs[d].json
        /\ \A k \in 1..Len(sent[d]) :
            (warmupFlag /\ sent[d][k].target = "run" /\ sent[d][k].jobhandle = 0) =>
                /\ k > 1
                /\ sent[d][k - 1].target = "load_pipeline"
                /\ sent[d][k - 1].rep = sent[d][k].rep

\* C3 witness: the handshake failed in the first repeat and was sent again in the
\* second, after a run Request with the full configuration.
C3_Witness ==
    \E d \in Spawned :
        /\ Len(handshakes[d]) >= 1 /\ handshakes[d][1].status # 0
        /\ Len(sent[d]) >= 3
        /\ sent[d][2].target = "run" /\ sent[d][2].pipelineconfig = vThs[d].json
        /\ sent[d][3].target = "load_pipeline" /\ sent[d][3].rep = 1

\* the frame count driver d has published
PublishedFrames(d) == g_frameCnt[published[d].frames]

\* C4 as claimed: a published frame count is the number of Responses the read
\* loops read, performance-summary Responses (of any status) excluded; finalize
\* adds up the published counts.
C4_FramesExcludeEveryPerformanceSummary ==
    /\ \A d \in Spawned : drv_pc[d] = "done" => PublishedFrames(d) = delivered[d].frames
    /\ (main_pc = "exit" /\ exit_status = "ok") =>
        totalFrames = SumSeq([d \in Spawned |-> delivered[d].frames])

\* C4 amended: a published frame count is the number of Responses the read loops
\* read, Responses of non-zero status included whatever their payload, only the
\* performance-summary Responses of status 0 excluded; finalize adds up the
\* published counts.
C4_FramesExcludeStatusZeroPerformanceSummary ==
    /\ \A d \in Spawned :
        drv_pc[d] = "done" =>
            PublishedFrames(d) = delivered[d].frames + delivered[d].perf_failed
    /\ (main_pc = "exit" /\ exit_status = "ok") =>
        /\ totalFrames = SumSeq([d \in Spawned |-> PublishedFrames(d)])
        /\ totalFrames = SumSeq([d \in Spawned |->
                                    delivered[d].frames + delivered[d].perf_failed])

\* C4 witness: finalize has added up two drivers' counts, one of which read a
\* Response of non-zero status and a performance summary of status 0.
C4_Witness ==
    /\ main_pc = "exit" /\ exit_status = "ok"
    /\ Len(vThs) = 2 /\ totalFrames = 1
    /\ \E d \in Spawned :
        /\ frameCnt[d] = 1 /\ delivered[d].lat_n = 0
        /\ files[vThs[d].reportFileName] = d

\* C5: a step changes g_latency_sum or g_latency_count only if it is the step
\* of a read loop that holds a Response of status 0 which is no performance
\* summary and carries a latency.
C5_OnlyLatencyResponsesRecord ==
    [][(g_latency_sum' # g_latency_sum \/ g_latency_count' # g_latency_count) =>
        \E d \in Spawned :
            /\ rd_pc[d] \in {"store_sum", "store_count"}
            /\ rd_pc'[d] # rd_pc[d]
            /\ reply[d].status = 0
            /\ reply[d].message # Garbage
            /\ reply[d].message.Type # "PerformanceData"
            /\ reply[d].message.latency # Absent]_vars

\* C5 witness: one latency was recorded while the same driver also counted a
\* Response that recorded none.
C5_Witness ==
    \E d \in Spawned :
        /\ g_latency_count = 1 /\ g_latency_sum = delivered[d].lat_sum
        /\ delivered[d].lat_n = 1 /\ frameCnt[d] = 2

\* C6: a thread that is inside an update of the latency accumulators or of the
\* per-thread collections holds g_mutex, so no two threads are inside one.
C6_UpdatesHoldMutex ==
    \A d \in Spawned :
        /\ rd_pc[d] \in {"store_sum", "load_count", "store_count"} =>
            g_mutex = ReaderThread(d)
        /\ drv_pc[d] = "publish_frames" => g_mutex = DriverThread(d)

\* C6 (second half): no two threads are inside such an update at the same time.
\* Stated with C6_UpdatesHoldMutex in one formula, the claim reads:
C6_UpdatesAreExclusive ==
    /\ C6_UpdatesHoldMutex
    /\ \A d, e \in Spawned :
        (d # e /\ rd_pc[d] \in {"store_sum", "load_count", "store_count"}) =>
            rd_pc[e] \notin {"store_sum", "load_count", "store_count"}

\* main has left both spawn loops
SpawnDone == main_pc \in {"gpu_util", "join", "finalize"}

\* C7: for every accepted pair (crossStreamNum = 0 is accepted by the check), the
\* partition is totalStreamNum / crossStreamNum primary drivers of crossStreamNum
\* streams with the primary configuration and totalStreamNum % crossStreamNum
\* secondary drivers of 1 stream with the alternate configuration, and the
\* streams of the spawned drivers add up to totalStreamNum.
C7_PartitionOfAcceptedPairs ==
    (main_pc # "sanity" /\ ~(totalStreamNum < crossStreamNum)) =>
        /\ crossStreamNum >= 1
        /\ gpu_threadNum = totalStreamNum \div crossStreamNum
        /\ npu_threadNum = totalStreamNum % crossStreamNum
        /\ SpawnDone =>
            /\ Len(vThs) = gpu_threadNum + npu_threadNum
            /\ \A k \in 1..Len(vThs) :
                IF k <= gpu_threadNum
                THEN vThs[k].json = PrimaryJson /\ vThs[k].stream_num = crossStreamNum
                ELSE vThs[k].json = AdditionalJson /\ vThs[k].stream_num = 1
            /\ SumSeq([k \in 1..Len(vThs) |-> vThs[k].stream_num]) = totalStreamNum

\* C8: when totalStreamNum < crossStreamNum, main ends with a non-zero exit code,
\* and no driver is ever spawned, no Request sent, no shared state touched.
C8_RejectedBeforeAnySpawn ==
    totalStreamNum < crossStreamNum =>
        /\ main_pc # "sanity" => (main_pc = "exit" /\ exit_status = "failure")
        /\ vThs = <<>>
        /\ \A d \in Drivers : drv_pc[d] = "unspawned" /\ sent[d] = <<>>
        /\ g_total = <<>> /\ g_frameCnt = <<>>
        /\ g_latency_sum = 0 /\ g_latency_count = 0 /\ g_mutex = NoThread

\* C8 witness: 2 streams in total and 4 per thread: main has returned EXIT_FAILURE.
C8_Witness ==
    /\ totalStreamNum = 2 /\ crossStreamNum = 4
    /\ main_pc = "exit" /\ exit_status = "failure"

\* every spawned driver has returned from workload
AllReturned ==
    /\ main_pc \notin {"sanity", "spawn_gpu", "spawn_npu"}
    /\ \A d \in Spawned : drv_pc[d] = "done"

\* C9: every driver publishes once: the collections grow by one entry per driver
\* that has published, and when all N drivers have returned they hold N entries,
\* each driver's elapsed time and frame count at one and the same index.
C9_OneEntryPerDriver ==
    /\ Len(g_total) = Cardinality({d \in Spawned : drv_pc[d] \in {"publish_frames", "done"}})
    /\ Len(g_frameCnt) = Cardinality({d \in Spawned : drv_pc[d] = "done"})
    /\ AllReturned =>
        /\ Len(g_total) = Len(vThs) /\ Len(g_frameCnt) = Len(vThs)
        /\ \A d \in Spawned :
            /\ published[d].total \in 1..Len(vThs)
            /\ published[d].frames = published[d].total
            /\ g_total[published[d].total] = timeUsed[d]
            /\ g_frameCnt[published[d].total] = frameCnt[d]
        /\ \A d, e \in Spawned : d # e => published[d].total # published[e].total

\* C9 witness: two drivers with different totals have returned, the one spawned
\* first published last.
C9_Witness ==
    /\ AllReturned /\ Len(vThs) = 2
    /\ published[1].total = 2 /\ published[2].total = 1
    /\ timeUsed[1] # timeUsed[2] /\ frameCnt[1] # frameCnt[2]

\* C10: main enters finalize only when every spawned driver has returned and no
\* read loop is left, and while main is in finalize no step changes the shared
\* collections, the latency accumulators or a report file.
C10_FinalizeAfterAllDrivers ==
    [][/\ main_pc' = "finalize" =>
            \A d \in 1..Len(vThs') : drv_pc'[d] = "done" /\ rd_pc'[d] = "none"
       /\ main_pc = "finalize" =>
            UNCHANGED <<g_total, g_frameCnt, g_latency_sum, g_latency_count, files>>]_vars

\* C10 witness: main is in finalize after two drivers that recorded latencies.
C10_Witness ==
    /\ main_pc = "finalize" /\ Len(vThs) = 2
    /\ g_latency_count >= 1 /\ Len(g_total) = 2

\* C11: every driver has a report file name of its own: no two drivers of one
\* run, of the primary or of the secondary group, are given the same
\* reportFileName, so no report file ever has two writers.
C11_ReportFileNamesDistinct ==
    \A d, e \in Spawned :
        d # e => vThs[d].reportFileName # vThs[e].reportFileName

\* this step is a step of the read loop of driver d: main, every driver and
\* every other read loop stay where they are
OnlyReaderMoves(d) ==
    /\ main_pc' = main_pc /\ drv_pc' = drv_pc /\ handshakes' = handshakes
    /\ \A e \in Drivers \ {d} : rd_pc'[e] = rd_pc[e]

\* a status-0 Response whose message does not decode, or decodes without the
\* latency field
Undecodable(r) ==
    /\ r.status = 0
    /\ \/ r.message = Garbage
       \/ r.message.Type # "PerformanceData" /\ r.message.latency = Absent

\* C12: the step of a read loop on a status-0 Response whose message fails to
\* decode, or has no latency field, leaves the run running and the latency sum
\* and count unchanged, and the loop goes on with that Response (it counts the
\* frame and reads again).
C12_UndecodableResponseSkipped ==
    [][\A d \in Spawned :
        (/\ exit_status = "running"
         /\ rd_pc[d] = "process" /\ Undecodable(reply[d])
         /\ OnlyReaderMoves(d)) =>
            /\ exit_status' = "running"
            /\ rd_pc'[d] = "count"
            /\ UNCHANGED <<g_latency_sum, g_latency_count>>]_vars

\* the read loop of driver s waits for the first Response of its stream
Stalled(s) == rd_pc[s] = "read" /\ isFirst[s]

\* C13: a driver whose stream the service never answers holds no lock, and once
\* every other driver has returned, the shared state holds exactly their
\* contributions: one entry of the per-thread totals per returned driver, with
\* its elapsed time and frame count, and the latency sum and count of all the
\* latencies their read loops recorded.
C13_StalledDriverCorruptsNothing ==
    \A s \in Spawned :
        Stalled(s) =>
            /\ g_mutex \notin {ReaderThread(s), DriverThread(s)}
            /\ (\A e \in Spawned \ {s} : drv_pc[e] = "done") =>
                /\ Len(g_total) = Len(vThs) - 1 /\ Len(g_frameCnt) = Len(vThs) - 1
                /\ \A e \in Spawned \ {s} :
                    /\ g_total[published[e].total] = timeUsed[e]
                    /\ g_frameCnt[published[e].frames] = frameCnt[e]
                /\ g_latency_count = IssuedLatencyCount
                /\ g_latency_sum = IssuedLatencySum

\* C14: a driver has a read-loop thread only while it waits in reader.join(); the
\* thread goes away only after its loop has ended, and the driver starts the
\* next repeat, writes a Request or starts a read loop only when it has no
\* read-loop thread.
C14_NoPipeliningAcrossRepeats ==
    [][\A d \in Drivers :
        /\ rd_pc[d] # "none" => drv_pc[d] = "join"
        /\ (rd_pc[d] # "none" /\ rd_pc'[d] = "none") => rd_pc[d] = "exited"
        /\ (rd_pc[d] # "read" /\ rd_pc'[d] = "read" /\ drv_pc'[d] # drv_pc[d]) =>
            rd_pc[d] = "none"
        /\ sent'[d] # sent[d] => rd_pc[d] = "none"
        /\ rep'[d] # rep[d] => rd_pc[d] = "none"]_vars

\* C14 witness: the read loop of the second repeat of a driver holds a Response,
\* after the read loop of its first repeat counted one.
C14_Witness ==
    \E d \in Spawned :
        /\ rep[d] = 1 /\ rd_pc[d] = "process" /\ frameCnt[d] = 1
        /\ Len(sent[d]) >= 2 /\ sent[d][Len(sent[d])].rep = 1

\* C15: when a repeat of a driver ends, a first Response has been received in
\* that repeat (isFirst is false, so first_response_received was set in it), and
\* timeUsed grows by the time from that first Response to the end of the repeat.
C15_ElapsedSinceFirstResponseOfRepeat ==
    [][\A d \in Drivers :
        rep'[d] # rep[d] =>
            /\ ~isFirst[d]
            /\ timeUsed'[d] =
                timeUsed[d] + (response_received'[d] - first_response_received[d])]_vars

\* C16 as claimed: the step of a read loop on a performance-summary Response, of
\* any status, writes the report file of the driver and goes back to reading,
\* with the frame count and the latency sum and count unchanged.
C16_EveryPerformanceSummarySaved ==
    [][\A d \in Spawned :
        (/\ rd_pc[d] = "process" /\ rd_pc'[d] # rd_pc[d]
         /\ reply[d].message.Type = "PerformanceData") =>
            /\ files'[vThs[d].reportFileName] = d
            /\ rd_pc'[d] = "read"
            /\ UNCHANGED <<frameCnt, g_latency_sum, g_latency_count>>]_vars

\* C16 amended: a performance-summary Response of status 0 is written to the
\* report file of the driver and ignored for statistics; one of non-zero status
\* is not decoded: no file is written and the Response goes on to be counted as
\* a frame, the latency sum and count unchanged.
C16_StatusZeroPerformanceSummarySaved ==
    [][\A d \in Spawned :
        (/\ rd_pc[d] = "process" /\ rd_pc'[d] # rd_pc[d]
         /\ reply[d].message.Type = "PerformanceData") =>
            /\ UNCHANGED <<frameCnt, g_latency_sum, g_latency_count>>
            /\ IF reply[d].status = 0
               THEN files'[vThs[d].reportFileName] = d /\ rd_pc'[d] = "read"
               ELSE UNCHANGED files /\ rd_pc'[d] = "count"]_vars

\* C16 witness: a read loop has ended after a performance summary of status 0,
\* which was saved, and one of non-zero status, which was counted as a frame.
C16_Witness ==
    \E d \in Spawned :
        /\ rd_pc[d] = "exited"
        /\ files[vThs[d].reportFileName] = d
        /\ delivered[d].perf_failed = 1 /\ delivered[d].frames = 0
        /\ frameCnt[d] = 1

\* C17: the thread identifiers of the drivers of a run are pairwise different, and
\* the entry of a driver in the per-thread totals is found from the driver, not
\* from the order in which the drivers returned: once all have returned, the
\* entry of the k-th driver spawned is the k-th entry.
C17_TotalsAttributedByThreadId ==
    /\ \A d, e \in Spawned : d # e => vThs[d].thread_id # vThs[e].thread_id
    /\ AllReturned =>
        \A d \in Spawned : published[d].total = d /\ published[d].frames = d

\* the run Requests driver d has written
RunRequests(d) == SelectSeq(sent[d], LAMBDA q : q.target = "run")

\* C18: a session that finishes with a non-OK status, and a run Response of
\* non-zero status, leave the run running and the driver in its loops: the
\* driver goes on to the next repeat, the read loop goes on to count the
\* Response.  Every driver writes one run Request per repeat it has started, and
\* it publishes only after pipeline_repeats repeats, with exactly
\* pipeline_repeats run Requests written.
C18_FailuresNeverAbortTheDriver ==
    [][\A d \in Spawned :
        /\ (rep'[d] # rep[d] /\ finish_status'[d] # "OK") =>
            exit_status' = "running" /\ drv_pc'[d] = "loop" /\ rep'[d] = rep[d] + 1
        /\ (rd_pc[d] = "process" /\ rd_pc'[d] # rd_pc[d] /\ reply[d].status # 0) =>
            exit_status' = "running" /\ rd_pc'[d] = "count"
        /\ Len(RunRequests(d)) =
            rep[d] + (IF drv_pc[d] \in {"join", "writes_done", "finish"} THEN 1 ELSE 0)
        /\ \A k \in 1..Len(RunRequests(d)) : RunRequests(d)[k].rep = k - 1
        /\ drv_pc[d] \in {"publish", "publish_frames", "done"} =>
            rep[d] = pipeline_repeats /\ Len(RunRequests(d)) = pipeline_repeats]_vars

\* C18 witness: a driver has published after two repeats, the last of which
\* finished with a non-OK status, and after it counted a Response of non-zero
\* status that is no performance summary.
C18_Witness ==
    \E d \in Spawned :
        /\ drv_pc[d] = "done" /\ pipeline_repeats = 2
        /\ finish_status[d] = "error" /\ Len(RunRequests(d)) = 2
        /\ frameCnt[d] = 1 /\ delivered[d].frames = 1
        /\ delivered[d].lat_n = 0 /\ delivered[d].perf_failed = 0

\* C19: after finalize, mean is the sum of the per-thread elapsed times divided
\* by their number, and fps is ((totalFrames - pipeline_repeats) / totalStreamNum)
\* / (mean / 1000), which is (totalFrames - pipeline_repeats) * 1000 * N over
\* totalStreamNum * sum; for 1000 frames, 5 repeats, 4 streams and a mean of
\* 20000 ms the fps is 12.4375 (199/16).
C19_MeanAndFps ==
    (main_pc = "exit" /\ exit_status = "ok") =>
        /\ totalTime = SumSeq(g_total) /\ totalFrames = SumSeq(g_frameCnt)
        /\ mean = Rat(SumSeq(g_total), Len(g_total))
        /\ fps = Rat((SumSeq(g_frameCnt) - pipeline_repeats) * 1000 * Len(g_total),
                     totalStreamNum * SumSeq(g_total))
        /\ (/\ totalFrames = 1000 /\ pipeline_repeats = 5
            /\ totalStreamNum = 4 /\ mean = Rat(20000, 1)) =>
                fps = Rat(124375, 10000)

\* C19 witness: finalize has run on 1000 frames, 5 repeats, 4 streams and a mean
\* of 20000 ms over two drivers, and the fps is 199/16.
C19_Witness ==
    /\ main_pc = "exit" /\ exit_status = "ok"
    /\ totalFrames = 1000 /\ pipeline_repeats = 5 /\ totalStreamNum = 4
    /\ Len(g_total) = 4 /\ g_total[1] # g_total[2]
    /\ mean = [num |-> 20000, den |-> 1]
    /\ fps = [num |-> 199, den |-> 16]

\* the Requests driver d has written in its current repeat
SessionRequests(d) == SelectSeq(sent[d], LAMBDA q : q.rep = rep[d])

\* driver d has read the handshake Response of its current repeat
HandshakeRead(d) == \E j \in 1..Len(handshakes[d]) : handshakes[d][j].rep = rep[d]

\* C20: in every session, load_pipeline is written first and only with warmup on
\* and no handle; its Response is read next; the run Request is written first in
\* a session without handshake and otherwise after the handshake Response has
\* been read; the read loop reads only after the run Request; the driver comes
\* to WritesDone only when the read loop has ended, and Finish, which ends the
\* repeat, comes after WritesDone.
C20_SessionEventOrder ==
    [][\A d \in Spawned :
        /\ \A k \in 1..Len(NewRequests(d)) :
            /\ NewRequests(d)[k].target = "load_pipeline" =>
                SessionRequests(d) = <<>> /\ warmupFlag /\ job_handle[d] = 0
            /\ NewRequests(d)[k].target = "run" =>
                \/ SessionRequests(d) = <<>> /\ ~(warmupFlag /\ job_handle[d] = 0)
                \/ /\ Len(SessionRequests(d)) = 1
                   /\ SessionRequests(d)[1].target = "load_pipeline"
                   /\ HandshakeRead(d)
        /\ handshakes'[d] # handshakes[d] =>
            /\ Len(SessionRequests(d)) = 1
            /\ SessionRequests(d)[1].target = "load_pipeline"
            /\ ~HandshakeRead(d)
        /\ (rd_pc[d] = "read" /\ rd_pc'[d] # "read") =>
            /\ SessionRequests(d) # <<>>
            /\ SessionRequests(d)[Len(SessionRequests(d))].target = "run"
        /\ (drv_pc[d] # "writes_done" /\ drv_pc'[d] = "writes_done") =>
            rd_pc[d] = "exited"
        /\ (drv_pc[d] = "writes_done" /\ drv_pc'[d] # "writes_done") =>
            rd_pc[d] = "none" /\ drv_pc'[d] = "finish"
        /\ rep'[d] # rep[d] => drv_pc[d] = "finish"]_vars

\* C20 witness: a driver has finished a session in which it wrote load_pipeline,
\* read the handshake Response, wrote the run Request and counted a Response.
C20_Witness ==
    \E d \in Spawned :
        /\ rep[d] = 1 /\ drv_pc[d] = "loop" /\ finish_status[d] # "none"
        /\ Len(handshakes[d]) = 1 /\ Len(sent[d]) = 2
        /\ sent[d][1].target = "load_pipeline" /\ sent[d][2].target = "run"
        /\ frameCnt[d] = 1

\* C21: a run Request written by a driver whose handle is non-zero carries that
\* handle and no pipelineConfig, one written with a zero handle carries the
\* driver's full pipelineConfig and no handle; and every run Request of a driver
\* carries its streamNum and its full media list (stream_num copies of the
\* repeated input list), the same in every repeat.
C21_RunRequestContents ==
    [][\A d \in Spawned :
        /\ \A k \in 1..Len(NewRequests(d)) :
            NewRequests(d)[k].target = "run" =>
                /\ IF job_handle[d] # 0
                   THEN /\ NewRequests(d)[k].jobhandle = job_handle[d]
                        /\ NewRequests(d)[k].pipelineconfig = NoConfig
                   ELSE /\ NewRequests(d)[k].jobhandle = 0
                        /\ NewRequests(d)[k].pipelineconfig = vThs[d].json
                /\ NewRequests(d)[k].streamnum = vThs[d].stream_num
                /\ NewRequests(d)[k].mediauri = vThs[d].stream_num
        /\ \A j, k \in 1..Len(RunRequests(d)) :
            /\ RunRequests(d)[j].streamnum = RunRequests(d)[k].streamnum
            /\ RunRequests(d)[j].mediauri = RunRequests(d)[k].mediauri]_vars

\* C21 witness: a driver wrote the run Request of its first repeat with the
\* configuration, after a failed handshake, and that of its second repeat with
\* the handle of the second handshake.
C21_Witness ==
    \E d \in Spawned :
        /\ Len(sent[d]) = 4
        /\ sent[d][2].target = "run" /\ sent[d][2].jobhandle = 0
        /\ sent[d][2].pipelineconfig = vThs[d].json
        /\ sent[d][4].target = "run" /\ sent[d][4].jobhandle = 1
        /\ sent[d][4].pipelineconfig = NoConfig
        /\ sent[d][4].mediauri = sent[d][2].mediauri

\* C22: a thread that is blocked in a read of its stream or in a join does not
\* hold g_mutex: not a read loop waiting for a Response, not a driver waiting
\* for the handshake Response or for its read loop, not main waiting for the
\* drivers; whoever holds g_mutex is inside one of the critical sections, which
\* contain no read and no join.
C22_NoLockHeldWhileBlocked ==
    /\ \A d \in Drivers :
        /\ rd_pc[d] \in {"read", "exited"} => g_mutex # ReaderThread(d)
        /\ drv_pc[d] \in {"handshake", "join"} => g_mutex # DriverThread(d)
        /\ g_mutex = ReaderThread(d) => rd_pc[d] \in {"first_unlock", "end_iteration"}
        /\ g_mutex = DriverThread(d) => drv_pc[d] = "publish_frames"
    /\ main_pc = "join" => g_mutex # MainThread
    /\ g_mutex = MainThread => main_pc \in {"finalize", "exit"}

\* C22 witness: a read loop that has been through the critical section of the
\* loop body waits for its next Response while another read loop holds g_mutex.
C22_Witness ==
    \E d, e \in Spawned :
        /\ d # e /\ rd_pc[d] = "read" /\ frameCnt[d] = 1
        /\ g_mutex = ReaderThread(e) /\ main_pc = "join"

\* every driver of the run has finished all its repeats and published its totals
AllPublished ==
    /\ Len(vThs) = ThreadsOf(totalStreamNum, crossStreamNum)
    /\ \A d \in Spawned :
        /\ drv_pc[d] = "done" /\ rep[d] = pipeline_repeats
        /\ published[d].total >= 1 /\ published[d].frames >= 1

\* C23: under fair scheduling, with a service that answers every handshake and
\* closes every stream, every driver eventually finishes all its repeats and
\* publishes its totals, and main eventually reaches finalize.
C23_EveryRunReachesFinalize ==
    <>(main_pc = "finalize" /\ AllPublished)

\* C24: a pair with crossStreamNum = 0 never gets past the sanity check: main
\* either has not made the check yet or has returned EXIT_FAILURE from it, with
\* no partition computed and no driver spawned.
C24_ZeroCrossStreamNumRejected ==
    crossStreamNum = 0 =>
        \/ main_pc = "sanity"
        \/ /\ main_pc = "exit" /\ exit_status = "failure"
           /\ gpu_threadNum = 0 /\ npu_threadNum = 0 /\ vThs = <<>>

====
